---------------------------- MODULE Spec2Model ----------------------------
(***************************************************************************)
(* Model of walletb (src/src/main.rs): a command-line program that decodes *)
(* an extended public key, derives count addresses at m/0/i and adds up    *)
(* the balance the block explorer reports for each.                        *)
(*                                                                         *)
(* Strings are sequences of ASCII codes and byte vectors are sequences of  *)
(* 0..255, so the Base58 conversion, the 78-byte key layout and the        *)
(* textual derivation path are computed the way the program computes      *)
(* them.  The hash functions and the curve are not evaluated: a derived    *)
(* key is the term (root chain code, root point, path) and an address is  *)
(* the term (version byte, hash160 of a point).                            *)
(***************************************************************************)
EXTENDS Integers, Sequences, FiniteSets

VARIABLES
  xpub,             \* Cli.xpub: the command-line string (ASCII codes)
  count,            \* Cli.count
  overflow_checks,  \* build profile: TRUE = integer overflow panics
  pc,               \* position of main
  decode_ret,       \* derive_addresses: what decode_xpub returned
  root,             \* derive_addresses: the parsed ExtendedPubKey
  i,                \* derive_addresses: loop index
  path,             \* derive_addresses: last DerivationPath built
  addresses,        \* derive_addresses: the local Vec<String>
  ret,              \* what derive_addresses returned to main
  queried,          \* main: the addresses handed to get_balance, in order
  total_balance,    \* main: the u64 accumulator
  sum_reported,     \* the sum of the balances printed per address
  printed_total,    \* main: the totals printed by line 92 (none or one)
  err               \* the error main exits with ("" if none)

vars == <<xpub, count, overflow_checks, pc, decode_ret, root, i, path,
          addresses, ret, queried, total_balance, sum_reported, printed_total,
          err>>

----------------------------------------------------------------------------
(* Bounds of the model *)

\* Width of a child index and of Cli.count (u32 in the program).
IndexBits == 4

\* Width of a satoshi amount (u64 in the program).
BalanceBits == 2

RECURSIVE Pow2(_)
Pow2(n) == IF n = 0 THEN 1 ELSE 2 * Pow2(n - 1)

MaxU32 == Pow2(IndexBits) - 1
MaxU64 == Pow2(BalanceBits) - 1

\* ChildNumber: the top bit of the index marks a hardened child.
HardenedBit == Pow2(IndexBits - 1)

----------------------------------------------------------------------------
(* Command-line inputs *)

\* 'xpub661MyMwAqRbcFxWNRRv6HoGmRuFZ2a43FAPX1YHgSoXQQFF4MumH9Sx5ecxa9GZcEqBeRBxHLXa5xnupTg6FpjoowHmg69vKwZYjt5mx5zt'
TestVectorXpub ==
  <<120, 112, 117, 98, 54, 54, 49, 77, 121, 77, 119, 65, 113, 82, 98, 99, 70, 120, 87, 78,
    82, 82, 118, 54, 72, 111, 71, 109, 82, 117, 70, 90, 50, 97, 52, 51, 70, 65, 80, 88,
    49, 89, 72, 103, 83, 111, 88, 81, 81, 70, 70, 52, 77, 117, 109, 72, 57, 83, 120, 53,
    101, 99, 120, 97, 57, 71, 90, 99, 69, 113, 66, 101, 82, 66, 120, 72, 76, 88, 97, 53,
    120, 110, 117, 112, 84, 103, 54, 70, 112, 106, 111, 111, 119, 72, 109, 103, 54, 57, 118, 75,
    119, 90, 89, 106, 116, 53, 109, 120, 53, 122, 116>>

\* 'xpub661MyMwAqRbcFtXgS5sYJABqqG9YLmC4Q1Rdap9gSE8NqtwybGhePY2gZ29ESFjqJoCu1Rupje8YtGqsefD265TMg7usUDFdp6W1EGMcet8'
Bip32Xpub ==
  <<120, 112, 117, 98, 54, 54, 49, 77, 121, 77, 119, 65, 113, 82, 98, 99, 70, 116, 88, 103,
    83, 53, 115, 89, 74, 65, 66, 113, 113, 71, 57, 89, 76, 109, 67, 52, 81, 49, 82, 100,
    97, 112, 57, 103, 83, 69, 56, 78, 113, 116, 119, 121, 98, 71, 104, 101, 80, 89, 50, 103,
    90, 50, 57, 69, 83, 70, 106, 113, 74, 111, 67, 117, 49, 82, 117, 112, 106, 101, 56, 89,
    116, 71, 113, 115, 101, 102, 68, 50, 54, 53, 84, 77, 103, 55, 117, 115, 85, 68, 70, 100,
    112, 54, 87, 49, 69, 71, 77, 99, 101, 116, 56>>

\* 'tpubD6NzVbkrYhZ4XgiXtGrdW5XDAPFCL9h7we1vwNCpn8tGbBcgfVYjXyhWo4E1xkh56hjod1RhGjxbaTLV3X4FyWuejifB9jusQ46QzG87VKp'
TestnetCheckXpub ==
  <<116, 112, 117, 98, 68, 54, 78, 122, 86, 98, 107, 114, 89, 104, 90, 52, 88, 103, 105, 88,
    116, 71, 114, 100, 87, 53, 88, 68, 65, 80, 70, 67, 76, 57, 104, 55, 119, 101, 49, 118,
    119, 78, 67, 112, 110, 56, 116, 71, 98, 66, 99, 103, 102, 86, 89, 106, 88, 121, 104, 87,
    111, 52, 69, 49, 120, 107, 104, 53, 54, 104, 106, 111, 100, 49, 82, 104, 71, 106, 120, 98,
    97, 84, 76, 86, 51, 88, 52, 70, 121, 87, 117, 101, 106, 105, 102, 66, 57, 106, 117, 115,
    81, 52, 54, 81, 122, 71, 56, 55, 86, 75, 112>>

\* '9XpNiB4DberdMn4jZizqttsyDcdJ39S72Ymn18gL3eihiH4LRQd7NbPyfo8HAaNhgLDCrSXsw5WieLSMMw4wqndBDZjo3jvJ2w1vfW6jFP'
RawMainnetXpub ==
  <<57, 88, 112, 78, 105, 66, 52, 68, 98, 101, 114, 100, 77, 110, 52, 106, 90, 105, 122, 113,
    116, 116, 115, 121, 68, 99, 100, 74, 51, 57, 83, 55, 50, 89, 109, 110, 49, 56, 103, 76,
    51, 101, 105, 104, 105, 72, 52, 76, 82, 81, 100, 55, 78, 98, 80, 121, 102, 111, 56, 72,
    65, 97, 78, 104, 103, 76, 68, 67, 114, 83, 88, 115, 119, 53, 87, 105, 101, 76, 83, 77,
    77, 119, 52, 119, 113, 110, 100, 66, 68, 90, 106, 111, 51, 106, 118, 74, 50, 119, 49, 118,
    102, 87, 54, 106, 70, 80>>

\* '8vN2gz2tn3hKyGq93Hy5npZSWpM8sLG9BPDMaeJXiFVwabwmUpKfNaWrhrkHpMDihXSLEqUeLdujTa9jRrHFLttVizYNJKxU1ggkXkt1K7'
RawTestnetXpub ==
  <<56, 118, 78, 50, 103, 122, 50, 116, 110, 51, 104, 75, 121, 71, 113, 57, 51, 72, 121, 53,
    110, 112, 90, 83, 87, 112, 77, 56, 115, 76, 71, 57, 66, 80, 68, 77, 97, 101, 74, 88,
    105, 70, 86, 119, 97, 98, 119, 109, 85, 112, 75, 102, 78, 97, 87, 114, 104, 114, 107, 72,
    112, 77, 68, 105, 104, 88, 83, 76, 69, 113, 85, 101, 76, 100, 117, 106, 84, 97, 57, 106,
    82, 114, 72, 70, 76, 116, 116, 86, 105, 122, 89, 78, 74, 75, 120, 85, 49, 103, 103, 107,
    88, 107, 116, 49, 75, 55>>

\* '9Xoy2u8vevhdokmLKwhuwe7fMad3pEMvXX7vLj4vwnrMMDNZAYKiyFbBNMiK7p9RVUTbPkCaUXMSv52Mn7M5md9DCT8YAwrCkja5nX7r2u'
RawPrivateVersion ==
  <<57, 88, 111, 121, 50, 117, 56, 118, 101, 118, 104, 100, 111, 107, 109, 76, 75, 119, 104, 117,
    119, 101, 55, 102, 77, 97, 100, 51, 112, 69, 77, 118, 88, 88, 55, 118, 76, 106, 52, 118,
    119, 110, 114, 77, 77, 68, 78, 90, 65, 89, 75, 105, 121, 70, 98, 66, 78, 77, 105, 75,
    55, 112, 57, 82, 86, 85, 84, 98, 80, 107, 67, 97, 85, 88, 77, 83, 118, 53, 50, 77,
    110, 55, 77, 53, 109, 100, 57, 68, 67, 84, 56, 89, 65, 119, 114, 67, 107, 106, 97, 53,
    110, 88, 55, 114, 50, 117>>

\* '9XpNiB4DberdMn4jZizqttsyDcdJ39S72Ymn18gL3eihiH4LRQd7NbPyfo8HAaNhgLDCrSXsw5WieLSMMw4wqndBDZjo3jvJ2w1vfW6jFR'
RawOffCurveKey ==
  <<57, 88, 112, 78, 105, 66, 52, 68, 98, 101, 114, 100, 77, 110, 52, 106, 90, 105, 122, 113,
    116, 116, 115, 121, 68, 99, 100, 74, 51, 57, 83, 55, 50, 89, 109, 110, 49, 56, 103, 76,
    51, 101, 105, 104, 105, 72, 52, 76, 82, 81, 100, 55, 78, 98, 80, 121, 102, 111, 56, 72,
    65, 97, 78, 104, 103, 76, 68, 67, 114, 83, 88, 115, 119, 53, 87, 105, 101, 76, 83, 77,
    77, 119, 52, 119, 113, 110, 100, 66, 68, 90, 106, 111, 51, 106, 118, 74, 50, 119, 49, 118,
    102, 87, 54, 106, 70, 82>>

\* 'invalidkey'
InvalidKey ==
  <<105, 110, 118, 97, 108, 105, 100, 107, 101, 121>>

\* '11abc'
ShortString ==
  <<49, 49, 97, 98, 99>>

\* ''
EmptyString ==
  <<>>

Inputs ==
  {TestVectorXpub, Bip32Xpub, TestnetCheckXpub, RawMainnetXpub, RawTestnetXpub,
   RawPrivateVersion, RawOffCurveKey, InvalidKey, ShortString, EmptyString}

KnownCurveX ==
  {<<57, 163, 96, 19, 48, 21, 151, 218, 239, 65, 251, 229, 147, 160, 44, 197, 19, 208, 181, 85,
    39, 236, 45, 241, 5, 14, 46, 143, 244, 156, 133, 194>>}

----------------------------------------------------------------------------
(* base58::FromBase58 for str, as called by decode_xpub *)

Ok(v) == [ok |-> TRUE, val |-> v, err |-> ""]
Err(e) == [ok |-> FALSE, val |-> <<>>, err |-> e]

\* "123456789ABCDEFGHJKLMNPQRSTUVWXYZabcdefghijkmnopqrstuvwxyz"
ALPHABET ==
  <<49, 50, 51, 52, 53, 54, 55, 56, 57,
    65, 66, 67, 68, 69, 70, 71, 72, 74, 75, 76, 77, 78,
    80, 81, 82, 83, 84, 85, 86, 87, 88, 89, 90,
    97, 98, 99, 100, 101, 102, 103, 104, 105, 106, 107,
    109, 110, 111, 112, 113, 114, 115, 116, 117, 118, 119, 120, 121, 122>>

\* A digit map that reads a code outside the alphabet as the digit 0.
B58_DIGITS_MAP_lenient(c) ==
  IF \E d \in 1..Len(ALPHABET) : ALPHABET[d] = c
  THEN (CHOOSE d \in 1..Len(ALPHABET) : ALPHABET[d] = c) - 1
  ELSE 0

\* The digit of an ASCII code, -1 for a code outside the alphabet.
B58_DIGITS_MAP(c) ==
  IF \E d \in 1..Len(ALPHABET) : ALPHABET[d] = c
  THEN (CHOOSE d \in 1..Len(ALPHABET) : ALPHABET[d] = c) - 1
  ELSE -1

\* Size of the decoder's output buffer.
BinLen == 132

Zeros(n) == [j \in 1..n |-> 0]

\* bin[lo..hi] * 58 + c on a big-endian byte vector: the new bytes and the
\* carry out of byte lo.  The lower half is done first and hands its carry
\* to the upper half.
RECURSIVE MulAddRange(_, _, _, _)
MulAddRange(bin, lo, hi, c) ==
  IF lo = hi
  THEN LET t == bin[lo] * 58 + c
       IN [b |-> <<t % 256>>, c |-> t \div 256]
  ELSE LET mid == (lo + hi) \div 2
           low == MulAddRange(bin, mid + 1, hi, c)
           halves == <<low, MulAddRange(bin, lo, mid, low.c)>>
       IN [b |-> halves[2].b \o halves[1].b, c |-> halves[2].c]

\* bin * 58 + c, one byte longer when the carry leaves the top byte.
MulAdd58(bin, c) ==
  IF bin = <<>>
  THEN IF c = 0 THEN <<>> ELSE <<c>>
  ELSE LET r == MulAddRange(bin, 1, Len(bin), c)
       IN IF r.c = 0 THEN r.b ELSE <<r.c>> \o r.b

RECURSIVE CountLeading(_, _, _, _)
CountLeading(s, c, lo, hi) ==
  IF lo > hi THEN 0
  ELSE IF lo = hi THEN (IF s[lo] = c THEN 1 ELSE 0)
  ELSE LET mid == (lo + hi) \div 2
           left == CountLeading(s, c, lo, mid)
       IN IF left = mid - lo + 1
          THEN left + CountLeading(s, c, mid + 1, hi)
          ELSE left

\* One symbol: reject it, or multiply the number by 58 and add its digit.
DecodeDigit(ch, acc) ==
  IF ~acc.ok THEN acc
  ELSE IF ch >= 128 \/ B58_DIGITS_MAP(ch) = -1 THEN Err("InvalidBase58Character")
  ELSE LET next == MulAdd58(acc.val, B58_DIGITS_MAP(ch))
       IN IF Len(next) > BinLen THEN Err("InvalidBase58Length") ELSE Ok(next)

\* The symbols s[lo..hi] in order, stopping at the first error.
RECURSIVE DecodeDigits(_, _, _, _)
DecodeDigits(s, lo, hi, acc) ==
  IF lo > hi \/ ~acc.ok THEN acc
  ELSE IF lo = hi THEN DecodeDigit(s[lo], acc)
  ELSE LET mid == (lo + hi) \div 2
       IN DecodeDigits(s, mid + 1, hi, DecodeDigits(s, lo, mid, acc))

\* The integer the symbols spell, as big-endian bytes, behind one zero byte
\* for each leading '1'.  No checksum is looked at and none is removed.
\* The modelled inputs are shorter than the decoder's buffer.
FromBase58(s) ==
  LET zcount == CountLeading(s, ALPHABET[1], 1, Len(s))
      r == DecodeDigits(s, zcount + 1, Len(s), Ok(<<>>))
  IN IF r.ok THEN Ok(Zeros(zcount) \o r.val) ELSE r

decode_xpub(s) == FromBase58(s)

----------------------------------------------------------------------------
(* bitcoin::util::bip32, as called by derive_addresses *)

\* Length of a serialized extended key.
XpubLen == 78

VersionMainnetPublic == <<4, 136, 178, 30>>    \* 0x0488B21E
VersionTestnetPublic == <<4, 53, 135, 207>>    \* 0x043587CF

\* A chain code or a curve point reached from the root's 32-byte chain code
\* cc0 and 33-byte point pk0 along path; the empty path is the root's own.
Derived(cc0, pk0, p) == [cc0 |-> cc0, pk0 |-> pk0, path |-> p]
NoMaterial == Derived(<<>>, <<>>, <<>>)

NoKey ==
  [network |-> "", depth |-> 0,
   parent_fingerprint |-> [raw |-> <<>>, of |-> NoMaterial],
   child_number |-> [hardened |-> FALSE, index |-> 0],
   chain_code |-> NoMaterial, public_key |-> NoMaterial]

\* ChildNumber::from(u32) on the four big-endian bytes b: the top bit
\* selects Hardened, the other 31 bits are the index.
ChildNumberFromBytes(b) ==
  [hardened |-> b[1] >= 128,
   index |-> (b[1] % 128) * 16777216 + b[2] * 65536 + b[3] * 256 + b[4]]

\* PublicKey::from_slice on 33 bytes: a compressed point, 0x02 or 0x03 and an
\* x-coordinate on the curve.  The curve equation is not evaluated: the
\* x-coordinates of the modelled inputs that satisfy it are listed.
PublicKeyFromSliceOk(pk) ==
  /\ Len(pk) = 33
  /\ pk[1] \in {2, 3}
  /\ SubSeq(pk, 2, 33) \in KnownCurveX

\* ExtendedPubKey::decode
ExtendedPubKeyDecode(data) ==
  IF Len(data) # XpubLen THEN Err("WrongExtendedKeyLength")
  ELSE IF SubSeq(data, 1, 4) \notin {VersionMainnetPublic, VersionTestnetPublic}
  THEN Err("UnknownVersion")
  ELSE IF ~PublicKeyFromSliceOk(SubSeq(data, 46, 78)) THEN Err("Ecdsa")
  ELSE Ok([network |-> IF SubSeq(data, 1, 4) = VersionMainnetPublic
                       THEN "Bitcoin" ELSE "Testnet",
           depth |-> data[5],
           parent_fingerprint |-> [raw |-> SubSeq(data, 6, 9), of |-> NoMaterial],
           child_number |-> ChildNumberFromBytes(SubSeq(data, 10, 13)),
           chain_code |-> Derived(SubSeq(data, 14, 45), SubSeq(data, 46, 78), <<>>),
           public_key |-> Derived(SubSeq(data, 14, 45), SubSeq(data, 46, 78), <<>>)])

\* format!("{}", index): the decimal digits of index, as ASCII codes.
RECURSIVE ToDecimal(_)
ToDecimal(n) ==
  IF n < 10 THEN <<48 + n>> ELSE Append(ToDecimal(n \div 10), 48 + (n % 10))

\* str::parse::<u32>: the value of a non-empty run of decimal digits that
\* fits the index width, -1 otherwise.
RECURSIVE ParseU32(_, _, _)
ParseU32(s, n, acc) ==
  IF acc = -1 \/ n > Len(s) THEN acc
  ELSE IF s[n] \notin 48..57 THEN -1
  ELSE LET v == acc * 10 + (s[n] - 48)
       IN ParseU32(s, n + 1, IF v > MaxU32 THEN -1 ELSE v)

\* ChildNumber::from_str: a trailing ' or h asks for a hardened child; a
\* plain number must have its top bit clear (ChildNumber::from_normal_idx).
ChildNumberFromStr(s) ==
  IF s = <<>> THEN Err("InvalidChildNumberFormat")
  ELSE IF s[Len(s)] \in {39, 104}
  THEN LET v == IF Len(s) = 1 THEN -1 ELSE ParseU32(SubSeq(s, 1, Len(s) - 1), 1, 0)
       IN IF v = -1 THEN Err("InvalidChildNumberFormat")
          ELSE IF v >= HardenedBit THEN Err("InvalidChildNumber")
          ELSE Ok([hardened |-> TRUE, index |-> v])
  ELSE LET v == ParseU32(s, 1, 0)
       IN IF v = -1 THEN Err("InvalidChildNumberFormat")
          ELSE IF v >= HardenedBit THEN Err("InvalidChildNumber")
          ELSE Ok([hardened |-> FALSE, index |-> v])

\* str::split('/'): the segments of s between slashes.
RECURSIVE Split(_, _, _, _)
Split(s, n, cur, parts) ==
  IF n > Len(s) THEN Append(parts, cur)
  ELSE IF s[n] = 47 THEN Split(s, n + 1, <<>>, Append(parts, cur))
  ELSE Split(s, n + 1, Append(cur, s[n]), parts)

RECURSIVE ParseChildren(_, _, _)
ParseChildren(parts, n, acc) ==
  IF n > Len(parts) THEN Ok(acc)
  ELSE LET c == ChildNumberFromStr(parts[n])
       IN IF c.ok THEN ParseChildren(parts, n + 1, Append(acc, c.val)) ELSE c

\* DerivationPath::from_str: "m", then one child number per segment.
DerivationPathFromStr(s) ==
  LET parts == Split(s, 1, <<>>, <<>>)
  IN IF parts[1] # <<109>> THEN Err("InvalidDerivationPathFormat")
     ELSE ParseChildren(parts, 2, <<>>)

\* A build_derivation_path that formats "m/{index}".
build_derivation_path_flat(index) ==
  DerivationPathFromStr(<<109, 47>> \o ToDecimal(index))

\* build_derivation_path: format "m/0/{index}" and parse it; a path that
\* does not parse panics (expect).
build_derivation_path(index) ==
  DerivationPathFromStr(<<109, 47, 48, 47>> \o ToDecimal(index))

\* ckd_pub_tweak / add_exp_assign: the left half of the HMAC-SHA512 output
\* must be a scalar below the curve order and must not take the parent point
\* to infinity.  Neither is evaluated; both hold for the modelled root at
\* m/0 and m/0/i.
TweakInRange(key, index) == TRUE

\* ExtendedPubKey::ckd_pub.  depth is a u8; the modelled roots have depth 0
\* and paths have two steps, so depth + 1 stays in range.
ckd_pub(key, cn) ==
  IF cn.hardened THEN Err("CannotDeriveFromHardenedKey")
  ELSE IF ~TweakInRange(key, cn.index) THEN Err("Ecdsa")
  ELSE Ok([network |-> key.network,
           depth |-> key.depth + 1,
           parent_fingerprint |-> [raw |-> <<>>, of |-> key.public_key],
           child_number |-> cn,
           chain_code |-> [key.chain_code EXCEPT !.path = Append(@, cn.index)],
           public_key |-> [key.public_key EXCEPT !.path = Append(@, cn.index)]])

\* ExtendedPubKey::derive_pub: ckd_pub along the path, stopping at the first
\* error.
RECURSIVE derive_pub(_, _, _)
derive_pub(key, p, n) ==
  IF n > Len(p) THEN Ok(key)
  ELSE LET child == ckd_pub(key, p[n])
       IN IF child.ok THEN derive_pub(child.val, p, n + 1) ELSE child

----------------------------------------------------------------------------
(* bitcoin::Address *)

PUBKEY_ADDRESS_PREFIX_MAIN == 0
PUBKEY_ADDRESS_PREFIX_TEST == 111

Hash160(pk) == [hash160_of |-> pk]

\* Address::p2pkh
p2pkh(pk, network) ==
  [version |-> IF network = "Bitcoin" THEN PUBKEY_ADDRESS_PREFIX_MAIN
               ELSE PUBKEY_ADDRESS_PREFIX_TEST,
   hash |-> Hash160(pk)]

\* Address::to_string: Base58Check of version byte and hash, 25 bytes.
AddressToString(a) == [base58check |-> a]

----------------------------------------------------------------------------
(* get_balance *)

\* Most UTXOs in one response.
MaxUtxos == 2

UtxoValues == {0, 1, MaxU64}

\* The Vec<ApiResponse> bodies the explorer may answer with (their
\* confirmed fields).
Responses ==
  UNION {[1..n -> UtxoValues] : n \in 0..MaxUtxos}

RECURSIVE SumFrom(_, _)
SumFrom(s, n) == IF n > Len(s) THEN 0 ELSE s[n] + SumFrom(s, n + 1)

\* response.iter().map(|utxo| utxo.confirmed).sum() on u64: an overflow
\* panics when the build checks overflow and wraps otherwise.
get_balance(response, checks) ==
  IF SumFrom(response, 1) > MaxU64
  THEN IF checks THEN [kind |-> "Panic", balance |-> 0]
       ELSE [kind |-> "Ok", balance |-> SumFrom(response, 1) % (MaxU64 + 1)]
  ELSE [kind |-> "Ok", balance |-> SumFrom(response, 1)]

----------------------------------------------------------------------------
(* The program *)

NoResult == [ok |-> FALSE, val |-> <<>>, err |-> "not called"]
NoRet == [kind |-> "none", val |-> <<>>, err |-> ""]

\* Values of Cli.count.
Counts == {0, 1, 2, 5, HardenedBit, HardenedBit + 1, MaxU32}

Init ==
  /\ xpub \in Inputs
  /\ count \in Counts
  /\ overflow_checks \in BOOLEAN
  /\ pc = "start"
  /\ decode_ret = NoResult
  /\ root = NoKey
  /\ i = 0
  /\ path = <<>>
  /\ addresses = <<>>
  /\ ret = NoRet
  /\ queried = <<>>
  /\ total_balance = 0
  /\ sum_reported = 0
  /\ printed_total = <<>>
  /\ err = ""

\* derive_addresses, line 49: decode_xpub(xpub)?
Decode ==
  /\ pc = "start"
  /\ decode_ret' = decode_xpub(xpub)
  /\ IF decode_ret'.ok
     THEN /\ pc' = "parse"
          /\ UNCHANGED <<ret, err>>
     ELSE /\ pc' = "exit_err"
          /\ ret' = [kind |-> "Err", val |-> <<>>, err |-> decode_ret'.err]
          /\ err' = decode_ret'.err
  /\ UNCHANGED <<xpub, count, overflow_checks, root, i, path, addresses,
                 queried, total_balance, sum_reported, printed_total>>

\* derive_addresses, lines 51-53: ExtendedPubKey::decode(&decoded_xpub)?
Parse ==
  /\ pc = "parse"
  /\ LET r == ExtendedPubKeyDecode(decode_ret.val)
     IN IF r.ok
        THEN /\ root' = r.val
             /\ pc' = "loop"
             /\ UNCHANGED <<ret, err>>
        ELSE /\ pc' = "exit_err"
             /\ ret' = [kind |-> "Err", val |-> <<>>, err |-> r.err]
             /\ err' = r.err
             /\ UNCHANGED root
  /\ addresses' = <<>>
  /\ UNCHANGED <<xpub, count, overflow_checks, decode_ret, i, path, queried,
                 total_balance, sum_reported, printed_total>>

\* derive_addresses, lines 55-63: one iteration of the loop.
Derive ==
  /\ pc = "loop"
  /\ i < count
  /\ LET p == build_derivation_path(i)
     IN IF ~p.ok
        THEN /\ pc' = "panic"
             /\ UNCHANGED <<path, addresses, i, ret, err>>
        ELSE LET child_pubkey == derive_pub(root, p.val, 1)
             IN /\ path' = p.val
                /\ IF child_pubkey.ok
                   THEN /\ addresses' =
                             Append(addresses,
                                    AddressToString(p2pkh(child_pubkey.val.public_key,
                                                          "Testnet")))
                        /\ i' = i + 1
                        /\ UNCHANGED <<pc, ret, err>>
                   ELSE /\ pc' = "exit_err"
                        /\ ret' = [kind |-> "Err", val |-> <<>>,
                                   err |-> child_pubkey.err]
                        /\ err' = child_pubkey.err
                        /\ UNCHANGED <<addresses, i>>
  /\ UNCHANGED <<xpub, count, overflow_checks, decode_ret, root, queried,
                 total_balance, sum_reported, printed_total>>

\* derive_addresses, line 65, and main, lines 78-82: Ok(addresses) reaches
\* main.
Return ==
  /\ pc = "loop"
  /\ i = count
  /\ ret' = [kind |-> "Ok", val |-> addresses, err |-> ""]
  /\ total_balance' = 0
  /\ pc' = "balances"
  /\ UNCHANGED <<xpub, count, overflow_checks, decode_ret, root, i, path,
                 addresses, queried, sum_reported, printed_total, err>>

\* main, lines 85-89: one iteration: the lookup fails, or answers with a
\* response whose sum is printed and added to the total.
Lookup ==
  /\ pc = "balances"
  /\ Len(queried) < Len(ret.val)
  /\ queried' = Append(queried, ret.val[Len(queried) + 1])
  /\ \/ /\ pc' = "exit_err"
        /\ err' = "get_balance"
        /\ UNCHANGED <<total_balance, sum_reported>>
     \/ \E response \in Responses :
          LET b == get_balance(response, overflow_checks)
          IN IF b.kind = "Panic"
             THEN /\ pc' = "panic"
                  /\ UNCHANGED <<total_balance, sum_reported, err>>
             ELSE /\ sum_reported' = sum_reported + b.balance
                  /\ IF total_balance + b.balance > MaxU64
                     THEN IF overflow_checks
                          THEN /\ pc' = "panic"
                               /\ UNCHANGED total_balance
                          ELSE /\ total_balance' =
                                    (total_balance + b.balance) % (MaxU64 + 1)
                               /\ UNCHANGED pc
                     ELSE /\ total_balance' = total_balance + b.balance
                          /\ UNCHANGED pc
                  /\ UNCHANGED err
  /\ UNCHANGED <<xpub, count, overflow_checks, decode_ret, root, i, path,
                 addresses, ret, printed_total>>

\* main, lines 92-94: the total is printed and main returns Ok(()).
PrintTotal ==
  /\ pc = "balances"
  /\ Len(queried) = Len(ret.val)
  /\ printed_total' = <<total_balance>>
  /\ pc' = "exit_ok"
  /\ UNCHANGED <<xpub, count, overflow_checks, decode_ret, root, i, path,
                 addresses, ret, queried, total_balance, sum_reported, err>>

Next ==
  \/ Decode
  \/ Parse
  \/ Derive
  \/ Return
  \/ Lookup
  \/ PrintTotal

Spec == Init /\ [][Next]_vars

----------------------------------------------------------------------------
(* What the properties are stated with *)

\* The Base58 alphabet: letters and digits without 0, O, I and l.
Base58Symbol(c) ==
  /\ c \in (48..57) \cup (65..90) \cup (97..122)
  /\ c \notin {48, 79, 73, 108}

AllBase58(s) == \A n \in 1..Len(s) : Base58Symbol(s[n])

Sha256dTable ==
  {[data |-> <<4, 136, 178, 30, 0, 0, 0, 0, 0, 0, 0, 0, 0, 142, 33, 75, 142, 113, 115, 191,
             62, 201, 91, 249, 84, 80, 90, 87, 167, 189, 144, 196, 94, 210, 4, 175, 24, 251, 77, 15,
             205, 209, 248, 4, 211, 7, 241, 109, 158, 55, 210, 199, 27, 145, 152, 111, 32, 210, 216, 142,
             52, 12, 33, 132, 197, 129, 125, 176, 234, 12, 64, 235, 90, 78, 220, 22, 121, 218>>,
    sum |-> <<195, 246, 157, 150>>],
   [data |-> <<4, 136, 178, 30, 0, 0, 0, 0, 0, 0, 0, 0, 0, 135, 61, 255, 129, 192, 47, 82,
             86, 35, 253, 31, 229, 22, 126, 172, 58, 85, 160, 73, 222, 61, 49, 75, 180, 46, 226, 39,
             255, 237, 55, 213, 8, 3, 57, 163, 96, 19, 48, 21, 151, 218, 239, 65, 251, 229, 147, 160,
             44, 197, 19, 208, 181, 85, 39, 236, 45, 241, 5, 14, 46, 143, 244, 156, 133, 194>>,
    sum |-> <<171, 71, 59, 33>>],
   [data |-> <<4, 53, 135, 207, 0, 0, 0, 0, 0, 0, 0, 0, 0, 135, 61, 255, 129, 192, 47, 82,
             86, 35, 253, 31, 229, 22, 126, 172, 58, 85, 160, 73, 222, 61, 49, 75, 180, 46, 226, 39,
             255, 237, 55, 213, 8, 3, 57, 163, 96, 19, 48, 21, 151, 218, 239, 65, 251, 229, 147, 160,
             44, 197, 19, 208, 181, 85, 39, 236, 45, 241, 5, 14, 46, 143, 244, 156, 133, 194>>,
    sum |-> <<123, 96, 165, 179>>],
   [data |-> <<4, 136, 178, 30, 0, 0, 0, 0, 0, 0, 0, 0, 0, 135, 61, 255, 129, 192, 47, 82,
             86, 35, 253, 31, 229, 22, 126, 172, 58, 85, 160, 73, 222, 61, 49, 75, 180, 46, 226, 39,
             255, 237, 55, 213, 8, 3, 57, 163, 96, 19, 48, 21, 151, 218, 239, 65, 251, 229, 147, 160,
             44, 197, 19, 208, 181, 85, 39, 236, 45, 241, 5, 14, 46, 143>>,
    sum |-> <<145, 199, 119, 54>>],
   [data |-> <<4, 53, 135, 207, 0, 0, 0, 0, 0, 0, 0, 0, 0, 135, 61, 255, 129, 192, 47, 82,
             86, 35, 253, 31, 229, 22, 126, 172, 58, 85, 160, 73, 222, 61, 49, 75, 180, 46, 226, 39,
             255, 237, 55, 213, 8, 3, 57, 163, 96, 19, 48, 21, 151, 218, 239, 65, 251, 229, 147, 160,
             44, 197, 19, 208, 181, 85, 39, 236, 45, 241, 5, 14, 46, 143>>,
    sum |-> <<7, 18, 22, 42>>],
   [data |-> <<4, 136, 173, 228, 0, 0, 0, 0, 0, 0, 0, 0, 0, 135, 61, 255, 129, 192, 47, 82,
             86, 35, 253, 31, 229, 22, 126, 172, 58, 85, 160, 73, 222, 61, 49, 75, 180, 46, 226, 39,
             255, 237, 55, 213, 8, 3, 57, 163, 96, 19, 48, 21, 151, 218, 239, 65, 251, 229, 147, 160,
             44, 197, 19, 208, 181, 85, 39, 236, 45, 241, 5, 14, 46, 143>>,
    sum |-> <<196, 143, 233, 163>>],
   [data |-> <<0>>,
    sum |-> <<20, 6, 224, 88>>]}

\* The first four bytes of SHA-256(SHA-256(data)), for the byte strings the
\* modelled inputs decode to (Sha256dTable lists them).
Sha256d4(data) == (CHOOSE r \in Sha256dTable : r.data = data).sum

\* bytes is a payload followed by its four checksum bytes.
ChecksumOk(bytes) ==
  /\ Len(bytes) >= 4
  /\ SubSeq(bytes, Len(bytes) - 3, Len(bytes)) = Sha256d4(SubSeq(bytes, 1, Len(bytes) - 4))

\* bytes is the Base58Check form of an extended public key: 78 bytes with a
\* public-key version tag and a valid compressed point, then the checksum.
WellFormedXpub(bytes) ==
  /\ Len(bytes) = XpubLen + 4
  /\ ChecksumOk(bytes)
  /\ SubSeq(bytes, 1, 4) \in {VersionMainnetPublic, VersionTestnetPublic}
  /\ bytes[46] \in {2, 3}
  /\ SubSeq(bytes, 47, 78) \in KnownCurveX

\* derive_addresses is over: it returned, or the program panicked.
Finished == pc \notin {"start", "parse", "loop"}

Normal(n) == [hardened |-> FALSE, index |-> n]

\* The address string of the key at m/0/n under the parsed root.
AddressHashAt(n) ==
  LET c0 == ckd_pub(root, Normal(0))
      c1 == ckd_pub(c0.val, Normal(n))
  IN Hash160(c1.val.public_key)

----------------------------------------------------------------------------
(* The claims *)

\* C1: for a well-formed extended public key and a count whose indices are
\* all non-hardened, derive_addresses returns Ok with exactly count
\* addresses.
C1_DerivesCountAddresses ==
  (Finished /\ decode_ret.ok /\ WellFormedXpub(decode_ret.val)
     /\ count <= HardenedBit)
  => (ret.kind = "Ok" /\ Len(ret.val) = count)

\* C2: for the Base58Check form of a 78-byte payload, decode_xpub returns
\* the payload without the four checksum bytes, so the parser is handed
\* exactly 78 bytes.
C2_DecodeReturnsPayload ==
  (pc # "start" /\ decode_ret.ok /\ ChecksumOk(decode_ret.val)
     /\ \E r \in Sha256dTable :
          /\ Len(r.data) = XpubLen
          /\ decode_ret.val = r.data \o r.sum)
  => Len(decode_ret.val) = XpubLen

\* C3: decode_xpub returns bytes for a string of Base58 symbols only if the
\* last four bytes are the checksum of the bytes before them; on a mismatch
\* it returns an error.
C3_ChecksumValidated ==
  (pc # "start" /\ AllBase58(xpub) /\ decode_ret.ok)
  => ChecksumOk(decode_ret.val)

\* C4: the address at output position n (counted from 0) is the P2PKH
\* address of derive_child(derive_child(root, 0), n); the path built for it
\* is [0, n]; positions are filled in ascending order; and the root the
\* children are derived from stays the key parsed from the decoded bytes.
C4_AddressesFollowPath ==
  /\ \A n \in 1..Len(addresses) :
       addresses[n].base58check.hash = AddressHashAt(n - 1)
  /\ path # <<>> =>
       path = <<Normal(0),
                Normal(IF ret.kind = "Err" THEN Len(addresses)
                       ELSE Len(addresses) - 1)>>
  /\ pc = "loop" => Len(addresses) = i
  /\ root # NoKey => root = ExtendedPubKeyDecode(decode_ret.val).val
  /\ ret.kind = "Ok" => (ret.val = addresses /\ Len(ret.val) = count)

\* C4 witness: five addresses were derived and returned.
C4_Witness ==
  /\ ret.kind = "Ok"
  /\ Len(ret.val) = 5
  /\ path = <<Normal(0), Normal(4)>>

\* C5: every derived address carries the version byte of the network the
\* parsed root key is tagged with.
C5_NetworkFollowsKey ==
  \A n \in 1..Len(addresses) :
    addresses[n].base58check.version =
      (IF root.network = "Bitcoin" THEN PUBKEY_ADDRESS_PREFIX_MAIN
       ELSE PUBKEY_ADDRESS_PREFIX_TEST)

\* C6: when the loop reaches a hardened index, the run ends with
\* derive_addresses returning an error; it does not panic.
C6_HardenedReturnsError ==
  (pc # "loop" /\ root # NoKey /\ i >= HardenedBit /\ i < count)
  => (pc = "exit_err" /\ ret.kind = "Err")

\* C7: when decoding, parsing or the derivation of an index fails,
\* derive_addresses returns Err, main receives no address list and no
\* balance is looked up.
C7_FailFast ==
  (pc \in {"exit_err", "panic"} /\ ret.kind # "Ok")
  => (ret.kind = "Err" /\ ret.val = <<>> /\ queried = <<>>
        /\ printed_total = <<>>)

\* C8: a string with a symbol outside the Base58 alphabet fails in
\* decode_xpub; the key parser and the derivation loop never run for it.
C8_MalformedStopsAtCodec ==
  (\E n \in 1..Len(xpub) : ~Base58Symbol(xpub[n]))
  => /\ pc \in {"start", "exit_err"}
     /\ root = NoKey /\ path = <<>> /\ addresses = <<>> /\ i = 0
     /\ pc = "exit_err" =>
          /\ ~decode_ret.ok
          /\ decode_ret.err = "InvalidBase58Character"
          /\ ret = [kind |-> "Err", val |-> <<>>, err |-> "InvalidBase58Character"]

\* C8 witness: "invalidkey" was handed to decode_xpub and the run is over.
C8_Witness ==
  /\ xpub = InvalidKey
  /\ pc = "exit_err"
  /\ ~decode_ret.ok

\* C9: with count 0 a well-formed extended public key yields Ok with an
\* empty list and no derivation step.
C9_ZeroCountIsEmpty ==
  (Finished /\ decode_ret.ok /\ WellFormedXpub(decode_ret.val) /\ count = 0)
  => (ret = [kind |-> "Ok", val |-> <<>>, err |-> ""] /\ path = <<>>)

\* C10: the balances are looked up once each in the order of the list; the
\* total printed is the sum of the balances printed; after a failed lookup
\* main stops with the error and prints no total.
C10_TotalIsSum ==
  /\ Len(queried) <= Len(ret.val)
  /\ \A n \in 1..Len(queried) : queried[n] = ret.val[n]
  /\ pc = "exit_ok" => (queried = ret.val /\ printed_total = <<sum_reported>>)
  /\ err = "get_balance" => (pc = "exit_err" /\ printed_total = <<>>)

=============================================================================
